---- MODULE Spec2Model ----
(***************************************************************************)
(* Validation and type-detection engine of valida-br-api.                  *)
(*                                                                         *)
(* src/db.js holds three successive revisions of the server; the model is  *)
(* of the last one (src/db.js lines 467-1161), whose declarations          *)
(* supersede the earlier copies of the same functions.                     *)
(*                                                                         *)
(* A JavaScript string is a sequence of one-character strings.  A value    *)
(* handed to the engine is a record [kind, str]: kind is "string", "null"  *)
(* (null or undefined) or "number"; str is the string itself, or what      *)
(* toString() yields for a number.  A JavaScript object is a record that   *)
(* has exactly the keys the object has.                                    *)
(***************************************************************************)
EXTENDS Integers, Sequences, FiniteSets, TLC

VARIABLES raw, policy, op, out, tag, fed, body, type, resp,
          production, redis, now, ticks, clients

\* the caller of the engine and the client of the endpoints
engineVars == <<raw, policy, op, out, tag, fed, body, type, resp>>

\* the HTTP server with its response cache
cacheVars == <<production, redis, now, ticks, clients>>

vars == <<engineVars, cacheVars>>

(***************************************************************************)
(* Bounds of the model.                                                    *)
(***************************************************************************)
\* Longest run of free digits appended to a base of BaseNumbers.
MaxTail == 2

(***************************************************************************)
(* Characters and character classes of the regular expressions.            *)
(***************************************************************************)
DigitChars == <<"0", "1", "2", "3", "4", "5", "6", "7", "8", "9">>

Digits == {DigitChars[i] : i \in 1..10}

UpperChars == <<"A", "B", "C", "D", "E", "F", "G", "H", "I", "J", "K", "L", "M",
                "N", "O", "P", "Q", "R", "S", "T", "U", "V", "W", "X", "Y", "Z">>

LowerChars == <<"a", "b", "c", "d", "e", "f", "g", "h", "i", "j", "k", "l", "m",
                "n", "o", "p", "q", "r", "s", "t", "u", "v", "w", "x", "y", "z">>

\* [A-Z]
Upper == {UpperChars[i] : i \in 1..26}

\* [a-z]
Lower == {LowerChars[i] : i \in 1..26}

\* \s, restricted to the white space the inputs use
Space == {" ", "\t", "\n"}

\* [!@#$%^&*(),.?":{}|<>]
Symbols == {"!", "@", "#", "$", "%", "^", "&", "*", "(", ")", ",", ".", "?",
            "\"", ":", "{", "}", "|", "<", ">"}

\* parseInt(c) of one decimal digit
parseInt(c) == CHOOSE n \in 0..9 : DigitChars[n + 1] = c

Min(a, b) == IF a < b THEN a ELSE b

\* String.prototype.slice(from, to) with 0 <= from, 0 <= to
slice(s, from, to) ==
    LET t == Min(to, Len(s))
        f == Min(from, t)
    IN  SubSeq(s, f + 1, t)

\* String.prototype.slice(from)
sliceFrom(s, from) == slice(s, from, Len(s))

\* String.prototype.startsWith
startsWith(s, p) == Len(s) >= Len(p) /\ SubSeq(s, 1, Len(p)) = p

(***************************************************************************)
(* Values: what a caller can pass as `raw`.                                *)
(***************************************************************************)
Str(s) == [kind |-> "string", str |-> s]

Null == [kind |-> "null", str |-> <<>>]

Num(s) == [kind |-> "number", str |-> s]

\* the value is falsy: null, undefined, "" or 0
Falsy(v) == v.kind = "null" \/ v.str = <<>> \/ (v.kind = "number" /\ v.str = <<"0">>)

\* (v || '').toString()
OrEmptyToString(v) == IF Falsy(v) THEN <<>> ELSE v.str

\* the errorCode of an Error that is not a ValidationError
Undefined == "<undefined>"

\* the masking token
Mask == <<"*", "*", "*">>

(***************************************************************************)
(* Utils.                                                                  *)
(***************************************************************************)
\* onlyDigits that lets the separators of the formatted numbers through
onlyDigits_KeepSeparators(v) ==
    SelectSeq(OrEmptyToString(v), LAMBDA c : c \in Digits \cup {".", "-", "/"})

\* const onlyDigits = (s = '') => (s || '').toString().replace(/\D+/g, '')
onlyDigits(v) == SelectSeq(OrEmptyToString(v), LAMBDA c : c \in Digits)

\* isRepeated without `if (digits.length < minLength) return false`
isRepeated_NoLength(digits, minLength) ==
    /\ Len(digits) >= 1
    /\ digits[1] \in Digits
    /\ \A i \in 1..Len(digits) : digits[i] = digits[1]

\* const isRepeated = (digits, minLength = 11) => ...
isRepeated(digits, minLength) ==
    IF Len(digits) < minLength
    THEN FALSE
    ELSE /\ Len(digits) >= 1
         /\ digits[1] \in Digits
         /\ \A i \in 1..Len(digits) : digits[i] = digits[1]

\* what the catch block of a validator returns for a thrown ValidationError
Failure(message, code, input) ==
    [valid |-> FALSE, errors |-> <<message>>, errorCode |-> code, input |-> input]

(***************************************************************************)
(* CPF.                                                                    *)
(***************************************************************************)
\* the loop `for (i = 0; i < n; i++) sum += parseInt(digits[i]) * (top - i)`
RECURSIVE cpfSum(_, _, _)
cpfSum(digits, n, top) ==
    IF n = 0 THEN 0
    ELSE cpfSum(digits, n - 1, top) + parseInt(digits[n]) * (top - (n - 1))

\* cpfRemainder with the mapping of 10 to 0 left out
cpfRemainder_NoWrap(sum) == (sum * 10) % 11

\* remainder = (sum * 10) % 11; if (remainder === 10 || remainder === 11) remainder = 0
cpfRemainder(sum) ==
    LET remainder == (sum * 10) % 11
    IN  IF remainder = 10 \/ remainder = 11 THEN 0 ELSE remainder

getCPFRegion(digits) ==
    CASE digits[9] = "1" -> "DF, GO, MS, MT, TO"
      [] digits[9] = "2" -> "AC, AM, AP, PA, RO, RR"
      [] digits[9] = "3" -> "CE, MA, PI"
      [] digits[9] = "4" -> "AL, PB, PE, RN"
      [] digits[9] = "5" -> "BA, SE"
      [] digits[9] = "6" -> "MG"
      [] digits[9] = "7" -> "ES, RJ"
      [] digits[9] = "8" -> "SP"
      [] digits[9] = "9" -> "PR, SC"
      [] digits[9] = "0" -> "RS"
      [] OTHER -> "Regiao desconhecida"

\* cpfNormalized with the last group cut one digit late
cpfNormalized_Late(digits) ==
    slice(digits, 0, 3) \o <<".">> \o slice(digits, 3, 6) \o <<".">>
    \o slice(digits, 6, 9) \o <<"-">> \o sliceFrom(digits, 10)

\* `${digits.slice(0, 3)}.${digits.slice(3, 6)}.${digits.slice(6, 9)}-${digits.slice(9)}`
cpfNormalized(digits) ==
    slice(digits, 0, 3) \o <<".">> \o slice(digits, 3, 6) \o <<".">>
    \o slice(digits, 6, 9) \o <<"-">> \o sliceFrom(digits, 9)

\* validateCPF with the repeated-sequence test ahead of the length test
validateCPF_RepeatedFirst(v) ==
    LET digits == onlyDigits(v)
    IN  IF isRepeated(digits, 11)
        THEN Failure("CPF invalido (sequencia repetida)", "REPEATED_SEQUENCE", v)
        ELSE IF Len(digits) # 11
        THEN Failure("CPF deve ter exatamente 11 digitos", "INVALID_LENGTH", v)
        ELSE IF cpfRemainder(cpfSum(digits, 9, 10)) # parseInt(digits[10])
        THEN Failure("Digito verificador invalido", "INVALID_CHECK_DIGIT", v)
        ELSE IF cpfRemainder(cpfSum(digits, 10, 11)) # parseInt(digits[11])
        THEN Failure("Digito verificador invalido", "INVALID_CHECK_DIGIT", v)
        ELSE [valid |-> TRUE,
              normalized |-> cpfNormalized(digits),
              metadata |-> [region |-> getCPFRegion(digits)]]

validateCPF(v) ==
    LET digits == onlyDigits(v)
    IN  IF Len(digits) # 11
        THEN Failure("CPF deve ter exatamente 11 digitos", "INVALID_LENGTH", v)
        ELSE IF isRepeated(digits, 11)
        THEN Failure("CPF invalido (sequencia repetida)", "REPEATED_SEQUENCE", v)
        ELSE IF cpfRemainder(cpfSum(digits, 9, 10)) # parseInt(digits[10])
        THEN Failure("Digito verificador invalido", "INVALID_CHECK_DIGIT", v)
        ELSE IF cpfRemainder(cpfSum(digits, 10, 11)) # parseInt(digits[11])
        THEN Failure("Digito verificador invalido", "INVALID_CHECK_DIGIT", v)
        ELSE [valid |-> TRUE,
              normalized |-> cpfNormalized(digits),
              metadata |-> [region |-> getCPFRegion(digits)]]

(***************************************************************************)
(* CNPJ.                                                                   *)
(***************************************************************************)
weights1 == <<5, 4, 3, 2, 9, 8, 7, 6, 5, 4, 3, 2>>

weights2 == <<6, 5, 4, 3, 2, 9, 8, 7, 6, 5, 4, 3, 2>>

RECURSIVE weightedSum(_, _, _)
weightedSum(weights, base, n) ==
    IF n = 0 THEN 0
    ELSE weightedSum(weights, base, n - 1) + parseInt(base[n]) * weights[n]

\* calcDigit with the threshold `remainder < 1`
calcDigit_Threshold(weights, base) ==
    LET remainder == weightedSum(weights, base, Len(weights)) % 11
    IN  IF remainder < 1 THEN 0 ELSE 11 - remainder

calcDigit(weights, base) ==
    LET remainder == weightedSum(weights, base, Len(weights)) % 11
    IN  IF remainder < 2 THEN 0 ELSE 11 - remainder

\* `${digits.slice(0, 2)}.${digits.slice(2, 5)}.${digits.slice(5, 8)}/${digits.slice(8, 12)}-${digits.slice(12)}`
cnpjNormalized(digits) ==
    slice(digits, 0, 2) \o <<".">> \o slice(digits, 2, 5) \o <<".">>
    \o slice(digits, 5, 8) \o <<"/">> \o slice(digits, 8, 12) \o <<"-">>
    \o sliceFrom(digits, 12)

validateCNPJ(v) ==
    LET digits == onlyDigits(v)
    IN  IF Len(digits) # 14
        THEN Failure("CNPJ deve ter exatamente 14 digitos", "INVALID_LENGTH", v)
        ELSE IF isRepeated(digits, 14)
        THEN Failure("CNPJ invalido (sequencia repetida)", "REPEATED_SEQUENCE", v)
        ELSE IF \/ calcDigit(weights1, slice(digits, 0, 12)) # parseInt(digits[13])
                \/ calcDigit(weights2, slice(digits, 0, 13)) # parseInt(digits[14])
        THEN Failure("Digitos verificadores invalidos", "INVALID_CHECK_DIGIT", v)
        ELSE [valid |-> TRUE,
              normalized |-> cnpjNormalized(digits),
              metadata |-> [estado |-> slice(digits, 0, 2)]]

(***************************************************************************)
(* Email.                                                                  *)
(***************************************************************************)
RECURSIVE trimStart(_)
trimStart(s) ==
    IF s # <<>> /\ Head(s) \in Space THEN trimStart(Tail(s)) ELSE s

RECURSIVE trimEnd(_)
trimEnd(s) ==
    IF s # <<>> /\ s[Len(s)] \in Space THEN trimEnd(SubSeq(s, 1, Len(s) - 1)) ELSE s

\* String.prototype.trim
trim(s) == trimEnd(trimStart(s))

\* String.prototype.indexOf(c), 1-based; 0 when c does not occur
indexOf(s, c) ==
    IF \E i \in 1..Len(s) : s[i] = c
    THEN CHOOSE i \in 1..Len(s) : s[i] = c /\ \A j \in 1..(i - 1) : s[j] # c
    ELSE 0

\* String.prototype.split('@'): the list of the pieces between the "@"
RECURSIVE splitAt(_)
splitAt(s) ==
    LET i == indexOf(s, "@")
    IN  IF i = 0 THEN <<s>>
        ELSE <<SubSeq(s, 1, i - 1)>> \o splitAt(SubSeq(s, i + 1, Len(s)))

\* emailRegex without the dot of the domain
emailRegex_NoDot(s) ==
    \E a \in 2..(Len(s) - 1) :
        /\ s[a] = "@"
        /\ \A i \in 1..Len(s) : i # a => s[i] \notin (Space \cup {"@"})

\* /^[^\s@]+@[^\s@]+\.[^\s@]{2,}$/.test(s)
emailRegex(s) ==
    \E a \in 2..Len(s) :
        /\ s[a] = "@"
        /\ \A i \in 1..Len(s) : i # a => s[i] \notin (Space \cup {"@"})
        /\ \E dot \in (a + 2)..(Len(s) - 2) : s[dot] = "."

\* The characters of the range U+00C0..U+00FF the inputs use, by name: the
\* range holds the accented letters and the two signs U+00D7 and U+00F7.
Latin1UpperChars == <<"Agrave", "Eacute">>

Latin1LowerChars == <<"agrave", "eacute">>

Latin1 == {"Agrave", "Eacute", "agrave", "eacute", "aacute", "atilde", "ccedil", "yuml",
           "times", "divide"}

\* String.prototype.toLowerCase
toLowerCase(s) ==
    [i \in DOMAIN s |->
        IF s[i] \in Upper
        THEN LowerChars[CHOOSE k \in 1..26 : UpperChars[k] = s[i]]
        ELSE IF \E k \in 1..2 : Latin1UpperChars[k] = s[i]
        THEN Latin1LowerChars[CHOOSE k \in 1..2 : Latin1UpperChars[k] = s[i]]
        ELSE s[i]]

disposableDomains ==
    { <<"t", "e", "m", "p", "m", "a", "i", "l", ".", "c", "o", "m">>,
      <<"d", "i", "s", "p", "o", "s", "a", "b", "l", "e", ".", "c", "o", "m">>,
      <<"t", "h", "r", "o", "w", "a", "w", "a", "y", ".", "c", "o", "m">>,
      <<"m", "a", "i", "l", "i", "n", "a", "t", "o", "r", ".", "c", "o", "m">>,
      <<"g", "u", "e", "r", "r", "i", "l", "l", "a", "m", "a", "i", "l", ".", "c", "o", "m">>,
      <<"1", "0", "m", "i", "n", "u", "t", "e", "m", "a", "i", "l", ".", "c", "o", "m">>,
      <<"y", "o", "p", "m", "a", "i", "l", ".", "c", "o", "m">> }

checkDisposableEmail(domain) == toLowerCase(domain) \in disposableDomains

validateEmail(v) ==
    LET s == trim(OrEmptyToString(v))
    IN  IF s = <<>>
        THEN Failure("E-mail nao informado", "MISSING_EMAIL", v)
        ELSE IF Len(s) > 254
        THEN Failure("E-mail muito longo", "EMAIL_TOO_LONG", v)
        ELSE IF ~emailRegex(s)
        THEN Failure("Formato de e-mail invalido", "INVALID_FORMAT", v)
        ELSE LET localPart == splitAt(s)[1]
                 domain == splitAt(s)[2]
             IN  IF Len(localPart) > 64
                 THEN Failure("Parte local do e-mail muito longa", "LOCAL_PART_TOO_LONG", v)
                 ELSE [valid |-> TRUE,
                       normalized |-> toLowerCase(s),
                       metadata |-> [domain |-> toLowerCase(domain),
                                     isDisposable |-> checkDisposableEmail(domain)]]

\* The address check of the HTTP server's copy of the engine
\* (src/API-Validacao-Dados/src/server.js), which differs from the one above
\* in its pattern only.
\* ("grave" names the grave accent U+0060)
LocalPartChars ==
    Upper \cup Lower \cup Digits \cup
    {".", "!", "#", "$", "%", "&", "'", "*", "+", "/", "=", "?", "^", "_", "grave", "{", "|", "}",
     "~", "-"}

AlphaNum == Upper \cup Lower \cup Digits

\* the domain of the server's pattern: labels of 1 to 63 characters joined by
\* dots, each of letters, digits and inner hyphens; one label is enough
serverDomain(d) ==
    /\ d # <<>>
    /\ d[1] \in AlphaNum
    /\ d[Len(d)] \in AlphaNum
    /\ \A i \in 1..Len(d) :
          /\ d[i] \in AlphaNum \cup {"-", "."}
          /\ d[i] = "." => d[i - 1] \in AlphaNum /\ d[i + 1] \in AlphaNum
    /\ \A i \in 1..(Len(d) - 63) : \E j \in i..(i + 63) : d[j] = "."

\* /^[a-zA-Z0-9.!#$%&'*+/=?^_<U+0060>{|}~-]+@label(\.label)*$/.test(s)
serverEmailRegex(s) ==
    \E a \in 2..Len(s) :
        /\ s[a] = "@"
        /\ \A i \in 1..(a - 1) : s[i] \in LocalPartChars
        /\ serverDomain(SubSeq(s, a + 1, Len(s)))

serverValidateEmail(v) ==
    LET s == trim(OrEmptyToString(v))
    IN  IF s = <<>>
        THEN Failure("E-mail nao informado", "MISSING_EMAIL", v)
        ELSE IF Len(s) > 254
        THEN Failure("E-mail muito longo", "EMAIL_TOO_LONG", v)
        ELSE IF ~serverEmailRegex(s)
        THEN Failure("Formato de e-mail invalido", "INVALID_FORMAT", v)
        ELSE LET localPart == splitAt(s)[1]
                 domain == splitAt(s)[2]
             IN  IF Len(localPart) > 64
                 THEN Failure("Parte local do e-mail muito longa", "LOCAL_PART_TOO_LONG", v)
                 ELSE [valid |-> TRUE,
                       normalized |-> toLowerCase(s),
                       metadata |-> [domain |-> toLowerCase(domain),
                                     isDisposable |-> checkDisposableEmail(domain)]]

(***************************************************************************)
(* Password.  A policy is a record: kind "object" with the keys the caller *)
(* set, or kind "null".  A policy that was not passed is the default {}.   *)
(***************************************************************************)
EmptyPolicy == [kind |-> "object"]

\* a destructuring default: the key's value, or the default when it is absent
policyGet(p, key, default) == IF key \in DOMAIN p THEN p[key] ELSE default

commonPasswords ==
    { <<"1", "2", "3", "4", "5", "6">>,
      <<"p", "a", "s", "s", "w", "o", "r", "d">>,
      <<"1", "2", "3", "4", "5", "6", "7", "8", "9">>,
      <<"q", "w", "e", "r", "t", "y">>,
      <<"a", "b", "c", "1", "2", "3">>,
      <<"1", "1", "1", "1", "1", "1">>,
      <<"1", "2", "3", "1", "2", "3">>,
      <<"s", "e", "n", "h", "a">>,
      <<"a", "d", "m", "i", "n">>,
      <<"i", "l", "o", "v", "e", "y", "o", "u">> }

\* /[A-Z]/.test(s) and the like
hasChar(s, class) == \E i \in 1..Len(s) : s[i] \in class

calculatePasswordStrength(password) ==
    LET strength ==
            (IF Len(password) >= 8 THEN 1 ELSE 0)
          + (IF Len(password) >= 12 THEN 1 ELSE 0)
          + (IF hasChar(password, Upper) THEN 1 ELSE 0)
          + (IF hasChar(password, Lower) THEN 1 ELSE 0)
          + (IF hasChar(password, Digits) THEN 1 ELSE 0)
          + (IF hasChar(password, Symbols) THEN 1 ELSE 0)
    IN  Min(strength, 5)

\* The errors pushed, in order.  The two length messages carry the policy's
\* number in the code; the number is left out of the message here.
passwordErrors(s, p) ==
    LET minLength == policyGet(p, "minLength", 8)
        maxLength == policyGet(p, "maxLength", 128)
        requireUpper == policyGet(p, "requireUpper", TRUE)
        requireLower == policyGet(p, "requireLower", TRUE)
        requireNumber == policyGet(p, "requireNumber", TRUE)
        requireSymbol == policyGet(p, "requireSymbol", TRUE)
        forbidCommon == policyGet(p, "forbidCommon", TRUE)
    IN    (IF Len(s) < minLength THEN <<"Senha deve ter no minimo N caracteres">> ELSE <<>>)
       \o (IF Len(s) > maxLength THEN <<"Senha deve ter no maximo N caracteres">> ELSE <<>>)
       \o (IF requireUpper /\ ~hasChar(s, Upper) THEN <<"Ao menos 1 letra maiuscula">> ELSE <<>>)
       \o (IF requireLower /\ ~hasChar(s, Lower) THEN <<"Ao menos 1 letra minuscula">> ELSE <<>>)
       \o (IF requireNumber /\ ~hasChar(s, Digits) THEN <<"Ao menos 1 numero">> ELSE <<>>)
       \o (IF requireSymbol /\ ~hasChar(s, Symbols) THEN <<"Ao menos 1 simbolo">> ELSE <<>>)
       \o (IF forbidCommon /\ toLowerCase(s) \in commonPasswords
           THEN <<"Senha muito comum">> ELSE <<>>)

\* The message of the thrown error is a sequence of tokens: the messages,
\* each one token (none of them holds the separator), and the separators.
Separator == ", "

\* errors.join(', ')
RECURSIVE join(_)
join(errors) ==
    IF errors = <<>> THEN <<>>
    ELSE IF Len(errors) = 1 THEN <<errors[1]>>
    ELSE <<errors[1], Separator>> \o join(Tail(errors))

\* the text of the tokens between two separators: "" for none, else the
\* one message
pieceText(piece) == IF piece = <<>> THEN "" ELSE piece[1]

\* error.message.split(', ')
RECURSIVE split(_)
split(message) ==
    IF \E i \in 1..Len(message) : message[i] = Separator
    THEN LET i == CHOOSE k \in 1..Len(message) :
                     /\ message[k] = Separator
                     /\ \A j \in 1..(k - 1) : message[j] # Separator
         IN  <<pieceText(SubSeq(message, 1, i - 1))>>
             \o split(SubSeq(message, i + 1, Len(message)))
    ELSE <<pieceText(message)>>

\* joinSplit that keeps the first piece only
joinSplit_First(errors) == <<split(join(errors))[1]>>

\* errors.join(', ') in the throw, error.message.split(', ') in the catch
joinSplit(errors) == split(join(errors))

\* validatePassword whose success carries no normalized string
validatePassword_NoNormalized(v, p) ==
    LET s == OrEmptyToString(v)
    IN  IF p.kind = "null"
        THEN [valid |-> FALSE,
              errors |-> <<"Cannot destructure property 'minLength' of 'policy' as it is null.">>,
              errorCode |-> Undefined,
              input |-> Mask]
        ELSE IF Len(passwordErrors(s, p)) > 0
        THEN [valid |-> FALSE,
              errors |-> joinSplit(passwordErrors(s, p)),
              errorCode |-> "PASSWORD_POLICY_VIOLATION",
              input |-> Mask]
        ELSE [valid |-> TRUE]

\* validatePassword that destructures the policy outside its try block
validatePassword_NoCatch(v, p) ==
    LET s == OrEmptyToString(v)
    IN  IF p.kind = "null"
        THEN [thrown |-> "TypeError"]
        ELSE IF Len(passwordErrors(s, p)) > 0
        THEN [valid |-> FALSE,
              errors |-> joinSplit(passwordErrors(s, p)),
              errorCode |-> "PASSWORD_POLICY_VIOLATION",
              input |-> Mask]
        ELSE [valid |-> TRUE,
              normalized |-> Mask,
              strength |-> calculatePasswordStrength(s),
              metadata |-> [length |-> Len(s),
                            hasUpper |-> hasChar(s, Upper),
                            hasLower |-> hasChar(s, Lower),
                            hasNumber |-> hasChar(s, Digits),
                            hasSymbol |-> hasChar(s, Symbols)]]

validatePassword(v, p) ==
    LET s == OrEmptyToString(v)
    IN  IF p.kind = "null"
        THEN \* the destructuring of null throws a TypeError inside the try
             [valid |-> FALSE,
              errors |-> <<"Cannot destructure property 'minLength' of 'policy' as it is null.">>,
              errorCode |-> Undefined,
              input |-> Mask]
        ELSE IF Len(passwordErrors(s, p)) > 0
        THEN [valid |-> FALSE,
              errors |-> joinSplit(passwordErrors(s, p)),
              errorCode |-> "PASSWORD_POLICY_VIOLATION",
              input |-> Mask]
        ELSE [valid |-> TRUE,
              normalized |-> Mask,
              strength |-> calculatePasswordStrength(s),
              metadata |-> [length |-> Len(s),
                            hasUpper |-> hasChar(s, Upper),
                            hasLower |-> hasChar(s, Lower),
                            hasNumber |-> hasChar(s, Digits),
                            hasSymbol |-> hasChar(s, Symbols)]]

(***************************************************************************)
(* Phone, CEP, RG, name.                                                   *)
(***************************************************************************)
\* dddRegex with 2[0-8] for 2[12478]
dddRegex_Wide(ddd) ==
    /\ Len(ddd) = 2
    /\ \/ ddd[1] \in {"1", "4", "6", "7", "8", "9"} /\ ddd[2] \in (Digits \ {"0"})
       \/ ddd[1] = "2" /\ ddd[2] \in (Digits \ {"9"})
       \/ ddd[1] = "3" /\ ddd[2] \in {"1", "2", "3", "4", "5", "7", "8"}
       \/ ddd[1] = "5" /\ ddd[2] \in {"1", "3", "4", "5"}

\* /^(1[1-9]|2[12478]|3[1-578]|4[1-9]|5[1345]|6[1-9]|7[1-9]|8[1-9]|9[1-9])$/.test(ddd)
dddRegex(ddd) ==
    /\ Len(ddd) = 2
    /\ \/ ddd[1] \in {"1", "4", "6", "7", "8", "9"} /\ ddd[2] \in (Digits \ {"0"})
       \/ ddd[1] = "2" /\ ddd[2] \in {"1", "2", "4", "7", "8"}
       \/ ddd[1] = "3" /\ ddd[2] \in {"1", "2", "3", "4", "5", "7", "8"}
       \/ ddd[1] = "5" /\ ddd[2] \in {"1", "3", "4", "5"}

\* `+55 (${ddd}) ${local.slice(2, 7)}-${local.slice(7)}`
phoneNormalized(ddd, local) ==
    <<"+", "5", "5", " ", "(">> \o ddd \o <<")", " ">>
    \o slice(local, 2, 7) \o <<"-">> \o sliceFrom(local, 7)

validatePhoneBR(v) ==
    LET s == onlyDigits(v)
        local == IF startsWith(s, <<"5", "5">>) THEN sliceFrom(s, 2) ELSE s
        ddd == slice(local, 0, 2)
    IN  IF Len(local) # 10 /\ Len(local) # 11
        THEN Failure("Telefone deve ter 10 (fixo) ou 11 digitos (celular)", "INVALID_LENGTH", v)
        ELSE IF ~dddRegex(ddd)
        THEN Failure("DDD invalido", "INVALID_DDD", v)
        ELSE IF Len(local) = 11 /\ local[3] # "9"
        THEN Failure("Celular deve iniciar com 9", "INVALID_CELL_FORMAT", v)
        ELSE [valid |-> TRUE,
              normalized |-> phoneNormalized(ddd, local),
              metadata |-> [type |-> IF Len(local) = 11 THEN "celular" ELSE "fixo",
                            ddd |-> ddd]]

getCEPRegion(firstDigit) ==
    CASE firstDigit = "0" -> "SP"
      [] firstDigit = "1" -> "SP"
      [] firstDigit = "2" -> "RJ/ES"
      [] firstDigit = "3" -> "MG"
      [] firstDigit = "4" -> "BA/SE"
      [] firstDigit = "5" -> "PE/AL/PB/RN"
      [] firstDigit = "6" -> "CE/PI/MA/PA/AP/AM/RR/AC"
      [] firstDigit = "7" -> "DF/GO/TO/MT/MS/RO"
      [] firstDigit = "8" -> "PR/SC"
      [] firstDigit = "9" -> "RS"
      [] OTHER -> "Desconhecido"

\* cepNormalized with the hyphen written as a digit
cepNormalized_Digit(digits) == slice(digits, 0, 5) \o <<"0">> \o sliceFrom(digits, 5)

\* `${digits.slice(0, 5)}-${digits.slice(5)}`
cepNormalized(digits) == slice(digits, 0, 5) \o <<"-">> \o sliceFrom(digits, 5)

validateCEP(v) ==
    LET digits == onlyDigits(v)
    IN  IF Len(digits) # 8
        THEN Failure("CEP deve ter 8 digitos", "INVALID_LENGTH", v)
        ELSE [valid |-> TRUE,
              normalized |-> cepNormalized(digits),
              metadata |-> [estado |-> slice(digits, 0, 2),
                            regiao |-> getCEPRegion(digits[1])]]

validateRG(v) ==
    LET digits == onlyDigits(v)
    IN  IF Len(digits) < 7 \/ Len(digits) > 9
        THEN Failure("RG deve ter entre 7 e 9 digitos", "INVALID_LENGTH", v)
        ELSE [valid |-> TRUE,
              normalized |-> digits,
              metadata |-> [length |-> Len(digits)]]

\* /^[A-Za-z<U+00C0>-<U+00FF>\s'-]+$/.test(s)
nameRegex(s) ==
    /\ Len(s) >= 1
    /\ \A i \in 1..Len(s) : s[i] \in (Upper \cup Lower \cup Latin1 \cup Space \cup {"'", "-"})

\* s.replace(/\s+/g, ' ')
collapseSpaces(s) ==
    LET keep == {i \in 1..Len(s) : s[i] \notin Space \/ i = 1 \/ s[i - 1] \notin Space}
        at(k) == CHOOSE i \in keep : Cardinality({j \in keep : j <= i}) = k
    IN  [k \in 1..Cardinality(keep) |-> IF s[at(k)] \in Space THEN " " ELSE s[at(k)]]

\* s.split(/\s+/).length
countPieces(s) ==
    1 + Cardinality({i \in 1..Len(s) : s[i] \in Space /\ (i = 1 \/ s[i - 1] \notin Space)})

validateName(v) ==
    IF ~Falsy(v) /\ v.kind # "string"
    THEN \* (raw || '').trim is not a function: a TypeError inside the try
         [valid |-> FALSE,
          errors |-> <<"(raw || \"\").trim is not a function">>,
          errorCode |-> Undefined,
          input |-> v]
    ELSE LET s == trim(OrEmptyToString(v))
         IN  IF Len(s) < 2
             THEN Failure("Nome muito curto", "TOO_SHORT", v)
             ELSE IF Len(s) > 100
             THEN Failure("Nome muito longo", "TOO_LONG", v)
             ELSE IF ~nameRegex(s)
             THEN Failure("Nome contem caracteres invalidos", "INVALID_CHARACTERS", v)
             ELSE [valid |-> TRUE,
                   normalized |-> collapseSpaces(s),
                   metadata |-> [wordCount |-> countPieces(s), length |-> Len(s)]]

(***************************************************************************)
(* Type detection.  The result is a type tag, or "null".                   *)
(***************************************************************************)
detectType(value) ==
    IF Falsy(value) THEN "null"
    ELSE LET str == value.str
             digits == onlyDigits(Str(str))
         IN  IF Len(digits) = 11 /\ validateCPF(Str(str)).valid THEN "cpf"
             ELSE IF Len(digits) = 14 /\ validateCNPJ(Str(str)).valid THEN "cnpj"
             ELSE IF Len(digits) = 8 THEN "cep"
             ELSE IF (Len(digits) = 10 \/ Len(digits) = 11) /\ dddRegex(slice(digits, 0, 2))
             THEN "phone-br"
             ELSE IF \E i \in 1..Len(str) : str[i] = "@" THEN "email"
             ELSE IF Len(digits) >= 7 /\ Len(digits) <= 9 THEN "rg"
             ELSE IF Len(str) >= 2 /\ Len(str) <= 100 /\ nameRegex(str) THEN "name"
             ELSE "null"

(***************************************************************************)
(* Inputs: the values a caller passes.  Digit strings are a base followed  *)
(* by every run of at most MaxTail digits, so that for each base every     *)
(* pair of check digits is tried; the texts are the other kinds of value.  *)
(***************************************************************************)
D(t) == [i \in DOMAIN t |-> DigitChars[t[i] + 1]]

BaseNumbers ==
    { <<>>,
      <<0, 1, 3, 1, 0, 1>>,
      <<1, 1, 1, 4, 4, 4, 7, 7, 7>>,
      <<1, 1, 9, 8, 7, 6, 5, 4, 3>>,
      <<3, 1, 9, 1, 2, 3, 4, 5, 6>>,
      <<1, 2, 3, 4, 5, 6, 7, 8, 9>>,
      <<2, 0, 9, 9, 1, 2, 3, 4, 5>>,
      <<5, 5, 9, 9, 1, 2, 3, 4, 5>>,
      <<0, 0, 0, 0, 0, 0, 0, 0, 0>>,
      <<1, 1, 1, 1, 1, 1, 1, 1, 1>>,
      <<1, 1, 1, 1, 1, 1, 1, 1, 1, 1>>,
      <<5, 5, 1, 1, 9, 8, 7, 6, 5, 4>>,
      <<5, 5, 1, 1, 9, 8, 7, 6, 5, 4, 3>>,
      <<1, 1, 2, 2, 2, 3, 3, 3, 0, 0, 0, 1>>,
      <<0, 0, 0, 0, 0, 0, 0, 0, 0, 0, 0, 0>>,
      <<1, 1, 1, 1, 1, 1, 1, 1, 1, 1, 1, 1>> }

Tails == UNION { [1..k -> Digits] : k \in 0..MaxTail }

DigitInputs == { D(b) \o t : b \in BaseNumbers, t \in Tails }

\* every two-digit area code in front of a mobile and of a landline number,
\* bare and behind the country code
PhoneInputs ==
    { c \o p \o r : c \in {<<>>, <<"5", "5">>},
                    p \in [1..2 -> Digits],
                    r \in {D(<<9, 8, 7, 6, 5, 4, 3, 2, 1>>), D(<<8, 7, 6, 5, 4, 3, 2, 1, 0>>),
                           D(<<3, 4, 5, 6, 7, 8, 9, 0>>)} }

TextInputs ==
    {
      <<>>,
      <<" ">>,
      <<"a", "b", "c">>,
      <<"A", "b", "c", "d", "e", "f", "1", "!">>,
      <<"A", "b", "c", "d", "e", "f", "g", "h", "1", "!", "x", "9">>,
      <<"p", "a", "s", "s", "w", "o", "r", "d">>,
      <<"P", "a", "s", "s", "w", "o", "r", "d", "1", "!">>,
      <<" ", "A", "b", "c", "d", "e", "f", "1", "!", " ">>,
      <<"a", "b", "c", "d", "e", "f", "g", "h">>,
      <<"A", "B", "C", "D", "E", "F", "G", "1", "!">>,
      <<"a", "@", "b", ".", "c", "o">>,
      <<"A", "@", "B", ".", "C", "o">>,
      <<"a", "@", "b">>,
      <<"@">>,
      <<"a", "@", "b", ".", "c">>,
      <<"a", " ", "b", "@", "c", ".", "d", "e">>,
      <<" ", "a", "@", "b", ".", "c", "o", " ">>,
      <<"a", "@", "@", "b", ".", "c", "o">>,
      <<"1", "2", "3", "4", "5", "6", "7", "8", "@", "x", ".", "y", "z">>,
      <<"M", "a", "r", "i", "a", " ", "S", "i", "l", "v", "a">>,
      <<"M", "a", "r", "i", "a", " ", " ", "S", "i", "l", "v", "a">>,
      <<" ", "A", "n", "a", " ">>,
      <<"A">>,
      <<"J", "o">>,
      <<"O", "'", "N", "e", "i", "l", "-", "S", "o", "u", "z", "a">>,
      <<"J", "o", "s", "e", "3">>,
      <<"1", "1", "1", ".", "4", "4", "4", ".", "7", "7", "7", "-", "3", "5">>,
      <<"1", "1", "9", ".", "8", "7", "6", ".", "5", "4", "3", "-", "7", "4">>,
      <<"1", "1", ".", "2", "2", "2", ".", "3", "3", "3", "/", "0", "0", "0", "1", "-", "8", "1">>,
      <<"0", "1", "3", "1", "0", "-", "1", "0", "0">>,
      <<"+", "5", "5", " ", "(", "1", "1", ")", " ", "9", "8", "7", "6", "5", "-", "4", "3", "2", "1">>,
      <<"(", "1", "1", ")", " ", "3", "4", "5", "6", "-", "7", "8", "9", "0">>,
      <<"R", "G", " ", "1", "2", "3", "4", "5", "6", "7">>,
      <<"A", "b", "1", "!", "5", "6", "7", "8">> }

Repeat(c, n) == [i \in 1..n |-> c]

\* values at the length limits of the validators
LongInputs ==
    { Repeat("a", 64) \o <<"@", "b", ".", "c", "o">>,
      Repeat("a", 65) \o <<"@", "b", ".", "c", "o">>,
      <<"a", "@">> \o Repeat("b", 249) \o <<".", "c", "o">>,
      <<"a", "@">> \o Repeat("b", 250) \o <<".", "c", "o">>,
      Repeat("a", 100),
      Repeat("a", 101),
      <<"A", "1", "!">> \o Repeat("a", 125),
      <<"A", "1", "!">> \o Repeat("a", 126) }

\* values with characters of the range U+00C0..U+00FF, and e-mail addresses
\* in capitals or of a disposable domain
Latin1Inputs ==
    { <<"J", "o", "s", "eacute">>,
      <<"Eacute", "r", "i", "c", "a">>,
      <<"a", "times", "b">>,
      <<"a", "divide", "b">>,
      <<"J", "o", "s", "Eacute", "@", "B", ".", "C", "o">>,
      <<" ", "A", "@", "B", ".", "C", "o", "\t">>,
      <<"x", "@", "M", "a", "i", "l", "i", "n", "a", "t", "o", "r", ".", "c", "o", "m">>,
      <<"x", "@", "y", "o", "p", "m", "a", "i", "l", ".", "c", "o", "m">> }

OtherInputs ==
    { Null,
      Num(<<"0">>),
      Num(<<"4", "2">>),
      Num(D(<<1, 1, 1, 4, 4, 4, 7, 7, 7, 3, 5>>)) }

Inputs ==
    { Str(s) : s \in DigitInputs \cup PhoneInputs \cup TextInputs \cup LongInputs \cup Latin1Inputs }
    \cup OtherInputs

Policies ==
    { EmptyPolicy,
      [kind |-> "null"],
      [kind |-> "object", minLength |-> 4, requireSymbol |-> FALSE],
      [kind |-> "object", upper |-> FALSE, lower |-> FALSE, number |-> FALSE,
       symbol |-> FALSE, forbidCommon |-> FALSE, minLength |-> 0, maxLength |-> 1000],
      [kind |-> "object", requireUpper |-> FALSE, requireLower |-> FALSE,
       requireNumber |-> FALSE, requireSymbol |-> FALSE, forbidCommon |-> FALSE,
       minLength |-> 0, maxLength |-> 10],
      [kind |-> "object", minLength |-> 8, maxLength |-> 2, requireLower |-> FALSE] }

(***************************************************************************)
(* The HTTP endpoints.  A response is a record of the status and the JSON  *)
(* body the client receives.                                               *)
(***************************************************************************)
Types == {"cpf", "cnpj", "email", "password", "phone-br", "cep", "rg", "name"}

\* { ...a, ...b }
Merge(a, b) == [k \in DOMAIN a \cup DOMAIN b |-> IF k \in DOMAIN b THEN b[k] ELSE a[k]]

\* JSON.stringify leaves out a key whose value is undefined; errorCode is the
\* one key of an outcome that can be
Json(o) ==
    IF "errorCode" \in DOMAIN o /\ o.errorCode = Undefined
    THEN [k \in DOMAIN o \ {"errorCode"} |-> o[k]]
    ELSE o

\* the cases of `switch (type)` that call a validator
validateAs(t, value, p) ==
    CASE t = "cpf" -> validateCPF(value)
      [] t = "cnpj" -> validateCNPJ(value)
      [] t = "email" -> validateEmail(value)
      [] t = "password" -> validatePassword(value, p)
      [] t = "phone-br" -> validatePhoneBR(value)
      [] t = "cep" -> validateCEP(value)
      [] t = "rg" -> validateRG(value)
      [] t = "name" -> validateName(value)

\* new Date().toISOString() and req.ip
Timestamp == "<timestamp>"

SourceIP == "<ip>"

BadRequest(error, errorCode) ==
    [status |-> 400, body |-> [error |-> error, errorCode |-> errorCode]]

\* GET /validate that echoes the value whatever the type
getValidate_Echo(value, t) ==
    IF Falsy(value)
    THEN BadRequest("Parametro \"value\" e obrigatorio", "MISSING_VALUE")
    ELSE LET detectedType == IF t = Undefined THEN detectType(value) ELSE t
         IN  IF detectedType = "null"
             THEN BadRequest("Tipo de dado nao reconhecido", "UNRECOGNIZED_TYPE")
             ELSE IF detectedType \notin Types
             THEN BadRequest("Tipo nao suportado", "UNSUPPORTED_TYPE")
             ELSE [status |-> 200,
                   body |-> Json(Merge(Merge([type |-> detectedType, input |-> value.str],
                                             validateAs(detectedType, value, EmptyPolicy)),
                                       [timestamp |-> Timestamp, sourceIP |-> SourceIP]))]

\* GET /validate?value=..&type=..; t is Undefined when the query has no type.
\* req.query, passed as the password policy, holds value and type only.
getValidate(value, t) ==
    IF Falsy(value)
    THEN BadRequest("Parametro \"value\" e obrigatorio", "MISSING_VALUE")
    ELSE LET detectedType == IF t = Undefined THEN detectType(value) ELSE t
         IN  IF detectedType = "null"
             THEN BadRequest("Tipo de dado nao reconhecido", "UNRECOGNIZED_TYPE")
             ELSE IF detectedType \notin Types
             THEN BadRequest("Tipo nao suportado", "UNSUPPORTED_TYPE")
             ELSE [status |-> 200,
                   body |-> Json(Merge(Merge([type |-> detectedType,
                                              input |-> IF detectedType = "password"
                                                        THEN Mask ELSE value.str],
                                             validateAs(detectedType, value, EmptyPolicy)),
                                       [timestamp |-> Timestamp, sourceIP |-> SourceIP]))]

\* An item of a batch is JSON: null, a number, or an object with some of the
\* keys type, value and policy.
Item(t, value) == [kind |-> "object", type |-> t, value |-> value]

ItemWithPolicy(t, value, p) == [kind |-> "object", type |-> t, value |-> value, policy |-> p]

\* policy || {}
policyOrEmpty(item) ==
    IF "policy" \in DOMAIN item /\ item.policy.kind # "null" THEN item.policy ELSE EmptyPolicy

\* the callback of items.map((item, index) => ...)
batchItem(item, index) ==
    IF item.kind # "object"
    THEN [valid |-> FALSE, errors |-> <<"Item invalido">>, errorCode |-> "INVALID_ITEM",
          index |-> index]
    ELSE IF \/ "type" \notin DOMAIN item
            \/ item.type = ""
            \/ "value" \notin DOMAIN item
            \/ Falsy(item.value)
    THEN [valid |-> FALSE, errors |-> <<"Tipo e valor sao obrigatorios">>,
          errorCode |-> "MISSING_FIELDS", index |-> index]
    ELSE IF item.type = "password"
    THEN Json(Merge(validatePassword(item.value, policyOrEmpty(item)),
                    [index |-> index, type |-> item.type, input |-> Mask]))
    ELSE IF item.type \in Types
    THEN Json(Merge(validateAs(item.type, item.value, EmptyPolicy),
                    [index |-> index, type |-> item.type]))
    ELSE [valid |-> FALSE, errors |-> <<"Tipo nao suportado">>,
          errorCode |-> "UNSUPPORTED_TYPE", index |-> index, type |-> item.type]

Array(items) == [kind |-> "array", items |-> items]

\* results.filter(r => r.valid).length
countValid(results) == Cardinality({i \in 1..Len(results) : results[i].valid})

BatchResponse(results) ==
    [status |-> 200,
     body |-> [results |-> results,
               summary |-> [total |-> Len(results),
                            valid |-> countValid(results),
                            invalid |-> Len(results) - countValid(results)]]]

\* a batch that stops at the first item that is not valid
postValidateBatch_StopAtInvalid(b) ==
    LET items == IF b.kind = "array" THEN b.items ELSE <<>>
        all == [i \in 1..Len(items) |-> batchItem(items[i], i - 1)]
        stop == IF \E i \in 1..Len(all) : ~all[i].valid
                THEN CHOOSE i \in 1..Len(all) :
                         ~all[i].valid /\ \A j \in 1..(i - 1) : all[j].valid
                ELSE Len(all)
    IN  IF Len(items) > 100
        THEN BadRequest("Maximo de 100 itens por requisicao", "BATCH_LIMIT_EXCEEDED")
        ELSE BatchResponse(SubSeq(all, 1, stop))

\* a batch that rejects a list of 100 items too
postValidateBatch_LimitAt100(b) ==
    LET items == IF b.kind = "array" THEN b.items ELSE <<>>
    IN  IF Len(items) >= 100
        THEN BadRequest("Maximo de 100 itens por requisicao", "BATCH_LIMIT_EXCEEDED")
        ELSE BatchResponse([i \in 1..Len(items) |-> batchItem(items[i], i - 1)])

\* POST /validate/batch
postValidateBatch(b) ==
    LET items == IF b.kind = "array" THEN b.items ELSE <<>>
    IN  IF Len(items) > 100
        THEN BadRequest("Maximo de 100 itens por requisicao", "BATCH_LIMIT_EXCEEDED")
        ELSE BatchResponse([i \in 1..Len(items) |-> batchItem(items[i], i - 1)])

\* the items the request bodies are made of
BatchItems ==
    { Null,
      Num(<<"7">>),
      Item("cpf", Str(D(<<1, 1, 1, 4, 4, 4, 7, 7, 7, 3, 5>>))),
      Item("cpf", Str(D(<<1, 1, 1, 4, 4, 4, 7, 7, 7, 3, 4>>))),
      Item("password", Str(<<"A", "b", "c", "d", "e", "f", "1", "!">>)),
      ItemWithPolicy("password", Str(<<"a", "b", "c">>),
                     [kind |-> "object", minLength |-> 4, requireSymbol |-> FALSE]),
      ItemWithPolicy("password", Str(<<"a", "b", "c">>), [kind |-> "null"]),
      Item("email", Str(<<"a", "@", "b", ".", "c", "o">>)),
      Item("name", Num(<<"4", "2">>)),
      Item("cep", Num(<<"0">>)),
      Item("xyz", Str(<<"a">>)),
      [kind |-> "object", value |-> Str(<<"a">>)] }

\* the longest list of items the request bodies enumerate in full
MaxBatch == 2

\* the request bodies: every list of up to MaxBatch items, lists of 100 and
\* of 101 items, and a body that is not an array
Bodies ==
    { Array(items) : items \in UNION { [1..n -> BatchItems] : n \in 0..MaxBatch } }
    \cup { Array(Repeat(item, n)) : item \in BatchItems, n \in {100, 101} }
    \cup { [kind |-> "object"] }

\* the type parameter of a query: a tag, an unknown tag, or none
QueryTypes == Types \cup {"xyz", Undefined}

(***************************************************************************)
(* The HTTP server of src/API-Validacao-Dados/src/server.js with its       *)
(* response cache.  Its two endpoints have the shape of the ones above;    *)
(* they call the server's own validateEmail, pass the policy of a batch    *)
(* item as it is, and stamp the response with the time and the client's    *)
(* address.  The functions the server calls without declaring them are the *)
(* ones of src/db.js.                                                      *)
(***************************************************************************)
serverValidateAs(t, value, p) ==
    IF t = "email" THEN serverValidateEmail(value) ELSE validateAs(t, value, p)

\* GET /validate/:type? answering at time `at` a request from address ip
serverGetValidate(value, t, at, ip) ==
    IF Falsy(value)
    THEN BadRequest("Parametro \"value\" e obrigatorio", "MISSING_VALUE")
    ELSE LET detectedType == IF t = Undefined THEN detectType(value) ELSE t
         IN  IF detectedType = "null"
             THEN BadRequest("Tipo de dado nao reconhecido", "UNRECOGNIZED_TYPE")
             ELSE IF detectedType \notin Types
             THEN BadRequest("Tipo nao suportado", "UNSUPPORTED_TYPE")
             ELSE [status |-> 200,
                   body |-> Json(Merge(Merge([type |-> detectedType,
                                              input |-> IF detectedType = "password"
                                                        THEN Mask ELSE value.str],
                                             serverValidateAs(detectedType, value, EmptyPolicy)),
                                       [timestamp |-> at, sourceIP |-> ip]))]

\* the policy a batch item hands to validatePassword(value, policy): the
\* parameter's default {} when the item has none
policyOrDefault(item) == IF "policy" \in DOMAIN item THEN item.policy ELSE EmptyPolicy

serverBatchItem(item, index) ==
    IF item.kind # "object"
    THEN [valid |-> FALSE, errors |-> <<"Item invalido">>, errorCode |-> "INVALID_ITEM",
          index |-> index]
    ELSE IF \/ "type" \notin DOMAIN item
            \/ item.type = ""
            \/ "value" \notin DOMAIN item
            \/ Falsy(item.value)
    THEN [valid |-> FALSE, errors |-> <<"Tipo e valor sao obrigatorios">>,
          errorCode |-> "MISSING_FIELDS", index |-> index]
    ELSE IF item.type = "password"
    THEN Json(Merge(validatePassword(item.value, policyOrDefault(item)),
                    [index |-> index, type |-> item.type, input |-> Mask]))
    ELSE IF item.type \in Types
    THEN Json(Merge(serverValidateAs(item.type, item.value, EmptyPolicy),
                    [index |-> index, type |-> item.type]))
    ELSE [valid |-> FALSE, errors |-> <<"Tipo nao suportado">>,
          errorCode |-> "UNSUPPORTED_TYPE", index |-> index, type |-> item.type]

serverPostValidateBatch(b) ==
    LET items == IF b.kind = "array" THEN b.items ELSE <<>>
    IN  IF Len(items) > 100
        THEN BadRequest("Maximo de 100 itens por requisicao", "BATCH_LIMIT_EXCEEDED")
        ELSE BatchResponse([i \in 1..Len(items) |-> serverBatchItem(items[i], i - 1)])

\* A request: the method, req.originalUrl (the path and the query) and
\* req.body.
Get(value, t) ==
    [method |-> "GET", originalUrl |-> [path |-> "/validate", value |-> value, type |-> t],
     body |-> [kind |-> "object"]]

Post(b) == [method |-> "POST", originalUrl |-> [path |-> "/validate/batch"], body |-> b]

\* what the route of the request answers at time `at` to the address ip
handle(req, at, ip) ==
    IF req.method = "GET"
    THEN serverGetValidate(req.originalUrl.value, req.originalUrl.type, at, ip)
    ELSE serverPostValidateBatch(req.body)

\* const key = `validate:${req.originalUrl}:${JSON.stringify(req.body)}`
cacheKey(req) == [originalUrl |-> req.originalUrl, body |-> req.body]

\* redisClient.setEx(key, 300, ...): the seconds an entry lives
TTL == 300

\* the addresses of the clients (req.ip)
Clients == {"10.0.0.1", "10.0.0.2"}

\* the requests the clients send
CacheRequests ==
    { Get(Str(D(<<1, 1, 1, 4, 4, 4, 7, 7, 7, 3, 5>>)), "cpf"),
      Get(Str(<<"a", "@", "b">>), "xyz"),
      Post(Array(<<Item("cpf", Str(D(<<1, 1, 1, 4, 4, 4, 7, 7, 7, 3, 5>>))), Null>>)) }

CacheKeys == { cacheKey(r) : r \in CacheRequests }

\* the number of times the clock advances
MaxTicks == 1

NoEntry == [none |-> TRUE]

Idle == [pc |-> "idle"]

\* what `await redisClient.get(key)` yields at the time it is issued: the
\* entry that has not expired, or nothing
cacheGet(key) ==
    IF redis[key] # NoEntry /\ now < redis[key].expiresAt
    THEN [hit |-> TRUE, data |-> redis[key].data]
    ELSE [hit |-> FALSE]

(***************************************************************************)
(* The engine as a state machine: a caller holds a value `raw`, calls one  *)
(* validator or the detector on it (`op` names the call, `out` holds the   *)
(* outcome, `tag` the detected type), and may feed the normalized string   *)
(* of a successful outcome back in as the next value (`fed`).  A client of *)
(* the endpoints sends the value with a `type` parameter to GET /validate, *)
(* or a request `body` to POST /validate/batch, and gets `resp`.           *)
(***************************************************************************)
NoOutcome == [none |-> TRUE]

NoPolicy == [kind |-> "unset"]

NoBody == [kind |-> "unset"]

Init ==
    /\ \/ raw \in Inputs /\ body = NoBody
       \/ raw = Null /\ body \in Bodies
    /\ policy = NoPolicy
    /\ op = "none"
    /\ out = NoOutcome
    /\ tag = "unset"
    /\ fed = NoOutcome
    /\ type = "unset"
    /\ resp = NoOutcome
    /\ production = FALSE
    /\ redis = [k \in CacheKeys |-> NoEntry]
    /\ now = 0
    /\ ticks = 0
    /\ clients = [c \in Clients |-> Idle]

ValidateCPF ==
    /\ op = "none"
    /\ op' = "cpf"
    /\ out' = validateCPF(raw)
    /\ UNCHANGED <<raw, policy, tag, fed, body, type, resp, cacheVars>>

ValidateCNPJ ==
    /\ op = "none"
    /\ op' = "cnpj"
    /\ out' = validateCNPJ(raw)
    /\ UNCHANGED <<raw, policy, tag, fed, body, type, resp, cacheVars>>

ValidateEmail ==
    /\ op = "none"
    /\ op' = "email"
    /\ out' = validateEmail(raw)
    /\ UNCHANGED <<raw, policy, tag, fed, body, type, resp, cacheVars>>

\* the same call on the HTTP server's copy of the engine
ServerValidateEmail ==
    /\ op = "none"
    /\ op' = "server-email"
    /\ out' = serverValidateEmail(raw)
    /\ UNCHANGED <<raw, policy, tag, fed, body, type, resp, cacheVars>>

ValidatePassword ==
    /\ op = "none"
    /\ \E p \in Policies :
        /\ policy' = p
        /\ out' = validatePassword(raw, p)
    /\ op' = "password"
    /\ UNCHANGED <<raw, tag, fed, body, type, resp, cacheVars>>

ValidatePhoneBR ==
    /\ op = "none"
    /\ op' = "phone-br"
    /\ out' = validatePhoneBR(raw)
    /\ UNCHANGED <<raw, policy, tag, fed, body, type, resp, cacheVars>>

ValidateCEP ==
    /\ op = "none"
    /\ op' = "cep"
    /\ out' = validateCEP(raw)
    /\ UNCHANGED <<raw, policy, tag, fed, body, type, resp, cacheVars>>

ValidateRG ==
    /\ op = "none"
    /\ op' = "rg"
    /\ out' = validateRG(raw)
    /\ UNCHANGED <<raw, policy, tag, fed, body, type, resp, cacheVars>>

ValidateName ==
    /\ op = "none"
    /\ op' = "name"
    /\ out' = validateName(raw)
    /\ UNCHANGED <<raw, policy, tag, fed, body, type, resp, cacheVars>>

DetectType ==
    /\ op = "none"
    /\ op' = "detect"
    /\ tag' = detectType(raw)
    /\ UNCHANGED <<raw, policy, out, fed, body, type, resp, cacheVars>>

\* the caller passes the normalized string of a successful outcome back in
Refeed ==
    /\ op \in Types
    /\ fed = NoOutcome
    /\ out.valid
    /\ raw' = Str(out.normalized)
    /\ fed' = [type |-> op, normalized |-> out.normalized]
    /\ op' = "none"
    /\ out' = NoOutcome
    /\ policy' = NoPolicy
    /\ UNCHANGED <<tag, body, type, resp, cacheVars>>

\* the lengths the validators pass to isRepeated: the default, used for the
\* CPF, and the one of the CNPJ
MinLengths == {11, 14}

\* the caller strips a value with onlyDigits
OnlyDigits ==
    /\ op = "none"
    /\ body = NoBody
    /\ op' = "onlyDigits"
    /\ out' = [digits |-> onlyDigits(raw)]
    /\ UNCHANGED <<raw, policy, tag, fed, body, type, resp, cacheVars>>

\* the caller strips a value and asks whether the digits are one digit
\* repeated, as validateCPF and validateCNPJ do
IsRepeated ==
    /\ op = "none"
    /\ body = NoBody
    /\ \E minLength \in MinLengths :
        out' = [digits |-> onlyDigits(raw),
                minLength |-> minLength,
                repeated |-> isRepeated(onlyDigits(raw), minLength)]
    /\ op' = "isRepeated"
    /\ UNCHANGED <<raw, policy, tag, fed, body, type, resp, cacheVars>>

GetValidate ==
    /\ op = "none"
    /\ body = NoBody
    /\ raw.kind \in {"string", "null"}
    /\ \E t \in QueryTypes :
        /\ type' = t
        /\ resp' = getValidate(raw, t)
    /\ op' = "GET /validate"
    /\ UNCHANGED <<raw, policy, out, tag, fed, body, cacheVars>>

PostValidateBatch ==
    /\ op = "none"
    /\ body # NoBody
    /\ resp' = postValidateBatch(body)
    /\ op' = "POST /validate/batch"
    /\ UNCHANGED <<raw, policy, out, tag, fed, body, type, cacheVars>>

Next ==
    \/ ValidateCPF
    \/ ValidateCNPJ
    \/ ValidateEmail
    \/ ServerValidateEmail
    \/ ValidatePassword
    \/ ValidatePhoneBR
    \/ ValidateCEP
    \/ ValidateRG
    \/ ValidateName
    \/ DetectType
    \/ Refeed
    \/ OnlyDigits
    \/ IsRepeated
    \/ GetValidate
    \/ PostValidateBatch

Spec == Init /\ [][Next]_vars

(***************************************************************************)
(* The server behind cacheMiddleware.  A client sends a request; the       *)
(* middleware passes it on at once when the cache is off, and else issues  *)
(* the cache read and suspends (`await`).  When the read returns, a hit is *)
(* sent back as it was stored; after a miss or a failed read the route     *)
(* answers, and after a miss its answer is stored for TTL seconds.         *)
(***************************************************************************)
CacheInit ==
    /\ raw = Null
    /\ body = NoBody
    /\ policy = NoPolicy
    /\ op = "none"
    /\ out = NoOutcome
    /\ tag = "unset"
    /\ fed = NoOutcome
    /\ type = "unset"
    /\ resp = NoOutcome
    /\ production \in BOOLEAN
    /\ redis = [k \in CacheKeys |-> NoEntry]
    /\ now = 0
    /\ ticks = 0
    /\ clients = [c \in Clients |-> Idle]

\* the answer the route gives now to client c
Answered(c, req, cached) ==
    [pc |-> "done", req |-> req, resp |-> handle(req, now, c), at |-> now, cached |-> cached]

\* if (config.nodeEnv !== 'production' || !redisClient) return next()
Bypass(c) ==
    /\ ~production
    /\ clients[c].pc # "awaiting"
    /\ \E req \in CacheRequests :
        clients' = [clients EXCEPT ![c] = Answered(c, req, FALSE)]
    /\ UNCHANGED <<engineVars, production, redis, now, ticks>>

\* the middleware issues redisClient.get(key) and suspends; the read
\* resolves to the entry of that moment, or is rejected
CacheRead(c) ==
    /\ production
    /\ clients[c].pc # "awaiting"
    /\ \E req \in CacheRequests, ok \in BOOLEAN :
        clients' = [clients EXCEPT ![c] =
                       [pc |-> "awaiting", req |-> req,
                        read |-> IF ok THEN cacheGet(cacheKey(req)) ELSE [failed |-> TRUE]]]
    /\ UNCHANGED <<engineVars, production, redis, now, ticks>>

\* if (cached) return res.json(JSON.parse(cached))
CacheHit(c) ==
    /\ clients[c].pc = "awaiting"
    /\ "hit" \in DOMAIN clients[c].read
    /\ clients[c].read.hit
    /\ clients' = [clients EXCEPT ![c] =
                      [pc |-> "done", req |-> clients[c].req,
                       resp |-> [status |-> 200, body |-> clients[c].read.data],
                       at |-> now, cached |-> TRUE]]
    /\ UNCHANGED <<engineVars, production, redis, now, ticks>>

\* res.json is wrapped and next() runs the route: the answer is stored with
\* setEx and sent
CacheMiss(c) ==
    /\ clients[c].pc = "awaiting"
    /\ "hit" \in DOMAIN clients[c].read
    /\ ~clients[c].read.hit
    /\ clients' = [clients EXCEPT ![c] = Answered(c, clients[c].req, FALSE)]
    /\ redis' = [redis EXCEPT ![cacheKey(clients[c].req)] =
                    [data |-> handle(clients[c].req, now, c).body, expiresAt |-> now + TTL]]
    /\ UNCHANGED <<engineVars, production, now, ticks>>

\* catch (error) { next() }: the route answers, nothing is stored
CacheError(c) ==
    /\ clients[c].pc = "awaiting"
    /\ "failed" \in DOMAIN clients[c].read
    /\ clients' = [clients EXCEPT ![c] = Answered(c, clients[c].req, FALSE)]
    /\ UNCHANGED <<engineVars, production, redis, now, ticks>>

\* time passes: a second, or the life of an entry
Tick ==
    /\ ticks < MaxTicks
    /\ \E step \in {1, TTL} : now' = now + step
    /\ ticks' = ticks + 1
    /\ UNCHANGED <<engineVars, production, redis, clients>>

CacheNext ==
    \/ \E c \in Clients : Bypass(c)
    \/ \E c \in Clients : CacheRead(c)
    \/ \E c \in Clients : CacheHit(c)
    \/ \E c \in Clients : CacheMiss(c)
    \/ \E c \in Clients : CacheError(c)
    \/ Tick

CacheSpec == CacheInit /\ [][CacheNext]_vars

(***************************************************************************)
(* Properties.                                                             *)
(***************************************************************************)
Called == op \in Types

AllDigits(s) == \A i \in 1..Len(s) : s[i] \in Digits

OneDigitRepeated(d) == Len(d) >= 1 /\ \A i \in 1..Len(d) : d[i] = d[1]

\* sum of d[i] * w[i] over the positions of w
RECURSIVE Dot(_, _, _)
Dot(d, w, n) == IF n = 0 THEN 0 ELSE parseInt(d[n]) * w[n] + Dot(d, w, n - 1)

\* C1: every outcome of a validator has normalized and no errors when valid,
\* and a non-empty list of errors and no normalized when invalid.
OutcomeShape ==
    Called =>
        /\ out.valid => "normalized" \in DOMAIN out /\ "errors" \notin DOMAIN out
        /\ ~out.valid =>
              /\ "errors" \in DOMAIN out
              /\ Len(out.errors) >= 1
              /\ "normalized" \notin DOMAIN out

OutcomeShapeWitness ==
    /\ op = "password"
    /\ policy = EmptyPolicy
    /\ out.valid
    /\ out.normalized = Mask

\* the first type, in the order Phone-BR, CPF, CNPJ, CEP, Email, Password, RG,
\* Name, whose validator accepts v; "null" when none does
FirstValid(v) ==
    IF validatePhoneBR(v).valid THEN "phone-br"
    ELSE IF validateCPF(v).valid THEN "cpf"
    ELSE IF validateCNPJ(v).valid THEN "cnpj"
    ELSE IF validateCEP(v).valid THEN "cep"
    ELSE IF validateEmail(v).valid THEN "email"
    ELSE IF validatePassword(v, EmptyPolicy).valid THEN "password"
    ELSE IF validateRG(v).valid THEN "rg"
    ELSE IF validateName(v).valid THEN "name"
    ELSE "null"

\* C2: detectType returns the first type, in the order Phone-BR, CPF, CNPJ,
\* CEP, Email, Password, RG, Name, whose validator accepts the value.
DetectIsFirstValid == op = "detect" => tag = FirstValid(raw)

\* C3: a string that is a valid CPF and is accepted by validatePhoneBR is
\* detected as phone-br.
CpfPhoneOverlapIsPhone ==
    (op = "detect" /\ raw.kind = "string"
        /\ validateCPF(raw).valid /\ validatePhoneBR(raw).valid)
    => tag = "phone-br"

AnyValidatorAccepts(v) ==
    \/ validatePhoneBR(v).valid
    \/ validateCPF(v).valid
    \/ validateCNPJ(v).valid
    \/ validateCEP(v).valid
    \/ validateEmail(v).valid
    \/ validatePassword(v, EmptyPolicy).valid
    \/ validateRG(v).valid
    \/ validateName(v).valid

\* C4: detectType reports no type exactly when none of the eight validators
\* accepts the value.
DetectNoneIffNoneValid ==
    op = "detect" => (tag = "null" <=> ~AnyValidatorAccepts(raw))

\* the check digit of the claim: the digits weighted by w, summed, times 10
\* modulo 11, with 10 and 11 mapped to 0
CpfCheckDigit(d, w) ==
    LET m == (Dot(d, w, Len(w)) * 10) % 11
    IN  IF m \in {10, 11} THEN 0 ELSE m

CpfWellFormed(d) ==
    /\ Len(d) = 11
    /\ ~OneDigitRepeated(d)
    /\ parseInt(d[10]) = CpfCheckDigit(d, <<10, 9, 8, 7, 6, 5, 4, 3, 2>>)
    /\ parseInt(d[11]) = CpfCheckDigit(d, <<11, 10, 9, 8, 7, 6, 5, 4, 3, 2>>)

\* C5: validateCPF accepts exactly the values whose digits are 11, not one
\* digit repeated, and end in the two check digits computed from the others.
CpfValidIffWellFormed ==
    op = "cpf" => (out.valid <=> CpfWellFormed(onlyDigits(raw)))

\* a valid CPF whose first check digit comes from the remainder 10
CpfValidIffWellFormedWitness ==
    /\ op = "cpf"
    /\ raw = Str(D(<<1, 2, 3, 4, 5, 6, 7, 8, 9, 0, 9>>))
    /\ out.valid

\* ddd.ddd.ddd-dd
CpfShape(s) ==
    /\ Len(s) = 14
    /\ s[4] = "." /\ s[8] = "." /\ s[12] = "-"
    /\ \A i \in (1..14) \ {4, 8, 12} : s[i] \in Digits

\* C6: a valid CPF digit string D is accepted, its normalized form has the
\* shape ddd.ddd.ddd-dd and strips back to D.
CpfNormalizedOfDigits ==
    (op = "cpf" /\ raw.kind = "string" /\ AllDigits(raw.str) /\ CpfWellFormed(raw.str))
    => /\ out.valid
       /\ CpfShape(out.normalized)
       /\ onlyDigits(Str(out.normalized)) = raw.str

CpfNormalizedOfDigitsWitness ==
    /\ op = "cpf"
    /\ raw = Str(D(<<1, 1, 1, 4, 4, 4, 7, 7, 7, 3, 5>>))
    /\ out.valid
    /\ out.normalized = <<"1", "1", "1", ".", "4", "4", "4", ".", "7", "7", "7", "-", "3", "5">>

\* C7: a rejected CPF reports one reason: the wrong digit count first, then
\* the repeated sequence, then the check digits.
CpfOneReasonByPriority ==
    op = "cpf" =>
        LET d == onlyDigits(raw)
        IN  /\ Len(d) # 11 =>
                  ~out.valid /\ out.errorCode = "INVALID_LENGTH" /\ Len(out.errors) = 1
            /\ (Len(d) = 11 /\ OneDigitRepeated(d)) =>
                  ~out.valid /\ out.errorCode = "REPEATED_SEQUENCE" /\ Len(out.errors) = 1
            /\ (Len(d) = 11 /\ ~OneDigitRepeated(d) /\ ~out.valid) =>
                  out.errorCode = "INVALID_CHECK_DIGIT" /\ Len(out.errors) = 1

\* twelve times the digit 1: the wrong count, and one digit repeated
CpfOneReasonByPriorityWitness ==
    /\ op = "cpf"
    /\ raw = Str(D(<<1, 1, 1, 1, 1, 1, 1, 1, 1, 1, 1, 1>>))
    /\ ~out.valid
    /\ out.errorCode = "INVALID_LENGTH"

\* the check digit of the claim: 0 if the weighted sum modulo 11 is below 2,
\* else 11 minus it
CnpjCheckDigit(d, w) ==
    LET m == Dot(d, w, Len(w)) % 11
    IN  IF m < 2 THEN 0 ELSE 11 - m

CnpjWellFormed(d) ==
    /\ Len(d) = 14
    /\ ~OneDigitRepeated(d)
    /\ parseInt(d[13]) = CnpjCheckDigit(d, <<5, 4, 3, 2, 9, 8, 7, 6, 5, 4, 3, 2>>)
    /\ parseInt(d[14]) = CnpjCheckDigit(d, <<6, 5, 4, 3, 2, 9, 8, 7, 6, 5, 4, 3, 2>>)

\* dd.ddd.ddd/dddd-dd
CnpjShape(s) ==
    /\ Len(s) = 18
    /\ s[3] = "." /\ s[7] = "." /\ s[11] = "/" /\ s[16] = "-"
    /\ \A i \in (1..18) \ {3, 7, 11, 16} : s[i] \in Digits

\* C8: validateCNPJ accepts exactly the values whose digits are 14, not one
\* digit repeated, and end in the two check digits; the normalized form of
\* an accepted value has the shape dd.ddd.ddd/dddd-dd.
CnpjValidIffWellFormed ==
    op = "cnpj" =>
        /\ out.valid <=> CnpjWellFormed(onlyDigits(raw))
        /\ out.valid => CnpjShape(out.normalized)

\* a valid CNPJ whose second check digit comes from the remainder 1
CnpjValidIffWellFormedWitness ==
    /\ op = "cnpj"
    /\ raw = Str(D(<<1, 1, 1, 1, 1, 1, 1, 1, 1, 1, 1, 1, 8, 0>>))
    /\ out.valid

\* C9: the normalized string of an accepted CPF, CNPJ or CEP, fed back into
\* the same validator, is accepted with the same normalized string.
RoundTrip ==
    (fed # NoOutcome /\ op = fed.type /\ op \in {"cpf", "cnpj", "cep"})
    => out.valid /\ out.normalized = fed.normalized

RoundTripWitness ==
    /\ fed # NoOutcome
    /\ fed.type = "cep"
    /\ op = "cep"
    /\ raw = Str(<<"0", "1", "3", "1", "0", "-", "1", "0", "0">>)
    /\ out.valid

\* the area codes, as numbers
AreaCodes ==
    (11..19) \cup {21, 22, 24, 27, 28} \cup {31, 32, 33, 34, 35, 37, 38} \cup (41..49)
    \cup {51, 53, 54, 55} \cup (61..69) \cup (71..79) \cup (81..89) \cup (91..99)

\* the digits of the value without a leading "55"
LocalNumber(v) ==
    LET d == onlyDigits(v)
    IN  IF Len(d) >= 2 /\ d[1] = "5" /\ d[2] = "5" THEN SubSeq(d, 3, Len(d)) ELSE d

PhoneWellFormed(l) ==
    /\ Len(l) \in {10, 11}
    /\ 10 * parseInt(l[1]) + parseInt(l[2]) \in AreaCodes
    /\ Len(l) = 11 => l[3] = "9"

\* C10: validatePhoneBR accepts exactly the values whose local number has 10
\* or 11 digits, a listed area code and, with 11 digits, the third digit 9.
PhoneValidIffWellFormed ==
    op = "phone-br" => (out.valid <=> PhoneWellFormed(LocalNumber(raw)))

PhoneValidIffWellFormedWitness ==
    /\ op = "phone-br"
    /\ raw = Str(D(<<5, 5, 1, 1, 9, 8, 7, 6, 5, 4, 3, 2, 1>>))
    /\ out.valid

\* C11: the normalized form of an accepted phone number is "+55 (DD) " and
\* then 5 digits, a hyphen and 4 digits for an 11-digit local number, 4
\* digits, a hyphen and 4 digits for a 10-digit one.
PhoneNormalizedGroups ==
    (op = "phone-br" /\ out.valid) =>
        LET l == LocalNumber(raw)
            head == <<"+", "5", "5", " ", "(", l[1], l[2], ")", " ">>
        IN  out.normalized =
                IF Len(l) = 11
                THEN head \o SubSeq(l, 3, 7) \o <<"-">> \o SubSeq(l, 8, 11)
                ELSE head \o SubSeq(l, 3, 6) \o <<"-">> \o SubSeq(l, 7, 10)

\* the policy of the claim, with every requirement switched off
LaxPolicy ==
    [kind |-> "object", upper |-> FALSE, lower |-> FALSE, number |-> FALSE,
     symbol |-> FALSE, forbidCommon |-> FALSE, minLength |-> 0, maxLength |-> 1000]

Padded(s) == s # <<>> /\ (s[1] \in Space \/ s[Len(s)] \in Space)

\* C12: under the policy with every requirement switched off, every
\* non-empty string of at most 1000 characters without leading or trailing
\* white space is accepted.
LaxPolicyAcceptsAll ==
    (op = "password" /\ policy = LaxPolicy /\ raw.kind = "string"
        /\ raw.str # <<>> /\ Len(raw.str) <= 1000 /\ ~Padded(raw.str))
    => out.valid

\* the rule a message of validatePassword reports
RuleOf(message) ==
    CASE message = "Senha deve ter no minimo N caracteres" -> "minLength"
      [] message = "Senha deve ter no maximo N caracteres" -> "maxLength"
      [] message = "Ao menos 1 letra maiuscula" -> "upper"
      [] message = "Ao menos 1 letra minuscula" -> "lower"
      [] message = "Ao menos 1 numero" -> "number"
      [] message = "Ao menos 1 simbolo" -> "symbol"
      [] message = "Senha muito comum" -> "common"
      [] OTHER -> "other"

\* a policy of the data model: an object with no other keys than its seven
PolicyKeys ==
    {"minLength", "maxLength", "requireUpper", "requireLower", "requireNumber",
     "requireSymbol", "forbidCommon"}

IsPasswordPolicy(p) == p.kind = "object" /\ DOMAIN p \subseteq (PolicyKeys \cup {"kind"})

Setting(p, key, default) == IF key \in DOMAIN p THEN p[key] ELSE default

\* the password s breaks the rule under the policy p
Violates(s, p, rule) ==
    CASE rule = "minLength" -> Len(s) < Setting(p, "minLength", 8)
      [] rule = "maxLength" -> Len(s) > Setting(p, "maxLength", 128)
      [] rule = "upper" -> Setting(p, "requireUpper", TRUE) /\ ~(\E i \in 1..Len(s) : s[i] \in Upper)
      [] rule = "lower" -> Setting(p, "requireLower", TRUE) /\ ~(\E i \in 1..Len(s) : s[i] \in Lower)
      [] rule = "number" -> Setting(p, "requireNumber", TRUE) /\ ~(\E i \in 1..Len(s) : s[i] \in Digits)
      [] rule = "symbol" -> Setting(p, "requireSymbol", TRUE) /\ ~(\E i \in 1..Len(s) : s[i] \in Symbols)
      [] rule = "common" -> Setting(p, "forbidCommon", TRUE) /\ toLowerCase(s) \in commonPasswords

RuleOrder == <<"minLength", "maxLength", "upper", "lower", "number", "symbol", "common">>

ViolatedRules(s, p) == SelectSeq(RuleOrder, LAMBDA rule : Violates(s, p, rule))

\* C13: validatePassword reports one entry for each violated rule, in the
\* order minimum length, maximum length, uppercase, lowercase, number,
\* symbol, common password, and accepts only when no rule is violated.
PasswordReportsEveryViolation ==
    (op = "password" /\ IsPasswordPolicy(policy)) =>
        LET broken == ViolatedRules(OrEmptyToString(raw), policy)
        IN  /\ out.valid <=> broken = <<>>
            /\ ~out.valid => [i \in 1..Len(out.errors) |-> RuleOf(out.errors[i])] = broken

\* "abc" under the default policy: four entries
PasswordReportsEveryViolationWitness ==
    /\ op = "password"
    /\ policy = EmptyPolicy
    /\ raw = Str(<<"a", "b", "c">>)
    /\ out.errors = <<"Senha deve ter no minimo N caracteres", "Ao menos 1 letra maiuscula",
                      "Ao menos 1 numero", "Ao menos 1 simbolo">>

\* C14: under every policy a password that begins or ends with white space
\* is rejected, with a white-space violation among its errors.
PaddedPasswordRejected ==
    (op = "password" /\ policy.kind = "object" /\ raw.kind = "string" /\ Padded(raw.str))
    => /\ ~out.valid
       /\ \E i \in 1..Len(out.errors) : RuleOf(out.errors[i]) = "other"

\* the positions of "@" in s
Ats(s) == {i \in 1..Len(s) : s[i] = "@"}

\* local-part@domain: a non-empty local part, and a dot in the domain
EmailShape(s) ==
    \E a \in Ats(s) :
        /\ a > 1
        /\ \E i \in (a + 1)..Len(s) : s[i] = "."

LocalPartLength(s) == (CHOOSE i \in Ats(s) : \A j \in Ats(s) : i <= j) - 1

LowerOf(c) ==
    CASE c \in Upper -> LowerChars[CHOOSE k \in 1..26 : UpperChars[k] = c]
      [] c = "Agrave" -> "agrave"
      [] c = "Eacute" -> "eacute"
      [] OTHER -> c

\* the value without its leading and trailing white space
Trimmed(s) ==
    IF \A i \in 1..Len(s) : s[i] \in Space THEN <<>>
    ELSE LET first == CHOOSE i \in 1..Len(s) :
                          s[i] \notin Space /\ \A j \in 1..(i - 1) : s[j] \in Space
             last == CHOOSE i \in 1..Len(s) :
                         s[i] \notin Space /\ \A j \in (i + 1)..Len(s) : s[j] \in Space
         IN  SubSeq(s, first, last)

\* C16: validateEmail (of the engine and of the server's copy) accepts only
\* values that, trimmed, are non-empty, at most 254 characters long, of the
\* shape local-part@domain with a dot in the domain and a local part of at
\* most 64 characters; normalized is the trimmed value in lower case; an
\* accepted address is accepted whether its domain is disposable or not.
EmailValidOnlyIfWellFormed ==
    op \in {"email", "server-email"} /\ out.valid =>
        LET s == Trimmed(OrEmptyToString(raw))
        IN  /\ s # <<>>
            /\ Len(s) <= 254
            /\ EmailShape(s)
            /\ LocalPartLength(s) <= 64
            /\ out.normalized = [i \in 1..Len(s) |-> LowerOf(s[i])]

\* the letters of the Latin alphabet, plain or accented
LatinLetters == Upper \cup Lower \cup (Latin1 \ {"times", "divide"})

\* s with every run of white space replaced by one space
Collapsed(s) ==
    LET keep == {i \in 1..Len(s) : ~(s[i] \in Space /\ i > 1 /\ s[i - 1] \in Space)}
        nth(k) == CHOOSE i \in keep : Cardinality({j \in keep : j < i}) = k - 1
    IN  [k \in 1..Cardinality(keep) |-> IF s[nth(k)] \in Space THEN " " ELSE s[nth(k)]]

\* C17: validateName accepts a value if and only if, trimmed, it is 2 to 100
\* characters long and made of Latin letters (plain or accented),
\* apostrophes, hyphens and white space only; normalized is the trimmed
\* value with every run of white space replaced by one space.
NameValidIffWellFormed ==
    op = "name" =>
        LET s == Trimmed(OrEmptyToString(raw))
        IN  /\ out.valid <=>
                  /\ Len(s) >= 2
                  /\ Len(s) <= 100
                  /\ \A i \in 1..Len(s) : s[i] \in LatinLetters \cup {"'", "-"} \cup Space
            /\ out.valid => out.normalized = Collapsed(s)

\* the texts validatePassword can report
PasswordMessages ==
    { "Senha deve ter no minimo N caracteres",
      "Senha deve ter no maximo N caracteres",
      "Ao menos 1 letra maiuscula",
      "Ao menos 1 letra minuscula",
      "Ao menos 1 numero",
      "Ao menos 1 simbolo",
      "Senha muito comum",
      "Cannot destructure property 'minLength' of 'policy' as it is null." }

\* every field of o is a fixed token, a flag or a count: none is a copy of
\* the password
Masked(o) ==
    /\ DOMAIN o \subseteq {"valid", "normalized", "errors", "errorCode", "input", "metadata",
                           "strength", "type", "index", "timestamp", "sourceIP"}
    /\ "normalized" \in DOMAIN o => o.normalized = Mask
    /\ "input" \in DOMAIN o => o.input = Mask
    /\ "errors" \in DOMAIN o => \A i \in 1..Len(o.errors) : o.errors[i] \in PasswordMessages
    /\ "errorCode" \in DOMAIN o => o.errorCode \in {"PASSWORD_POLICY_VIOLATION", Undefined}
    /\ "strength" \in DOMAIN o => o.strength \in 0..5
    /\ "metadata" \in DOMAIN o =>
          /\ DOMAIN o.metadata = {"length", "hasUpper", "hasLower", "hasNumber", "hasSymbol"}
          /\ o.metadata.length \in Nat
          /\ \A k \in DOMAIN o.metadata \ {"length"} : o.metadata[k] \in BOOLEAN

\* C15: the password is in no field of what password validation returns: the
\* outcome of validatePassword, the response of GET /validate for type
\* password and the batch results of type password hold the token "***" as
\* normalized and input, fixed messages and codes, flags and counts only.
PasswordNeverReturned ==
    /\ op = "password" => Masked(out)
    /\ op = "GET /validate" /\ resp.status = 200 /\ resp.body.type = "password" =>
          /\ Masked(resp.body)
          /\ resp.body.input = Mask
    /\ op = "POST /validate/batch" /\ resp.status = 200 =>
          \A i \in 1..Len(resp.body.results) :
              LET r == resp.body.results[i]
              IN  "type" \in DOMAIN r /\ r.type = "password" => Masked(r) /\ r.input = Mask

\* GET /validate accepted a password and answered with the token
PasswordNeverReturnedWitness ==
    /\ op = "GET /validate"
    /\ type = "password"
    /\ raw = Str(<<"A", "b", "c", "d", "e", "f", "1", "!">>)
    /\ resp.status = 200
    /\ resp.body.valid
    /\ resp.body.normalized = Mask
    /\ resp.body.input = Mask

\* the result of posting the item alone
Alone(item) == postValidateBatch(Array(<<item>>)).body.results[1]

\* C18: for a list of at most 100 items the batch answers with one result
\* per item, in the order of the items; the i-th result is the result of
\* the i-th item posted alone, with the item's position as index.
BatchIsIndependentMap ==
    op = "POST /validate/batch" /\ body.kind = "array" /\ Len(body.items) <= 100 =>
        /\ resp.status = 200
        /\ Len(resp.body.results) = Len(body.items)
        /\ \A i \in 1..Len(body.items) :
              /\ resp.body.results[i].index = i - 1
              /\ resp.body.results[i] = [Alone(body.items[i]) EXCEPT !.index = i - 1]

\* an item that is not valid, followed by one that is
BatchIsIndependentMapWitness ==
    /\ op = "POST /validate/batch"
    /\ body = Array(<<Null, Item("cpf", Str(D(<<1, 1, 1, 4, 4, 4, 7, 7, 7, 3, 5>>)))>>)
    /\ resp.status = 200
    /\ ~resp.body.results[1].valid
    /\ resp.body.results[2].valid
    /\ resp.body.results[2].index = 1

Taxonomy ==
    { "INVALID_LENGTH", "REPEATED_SEQUENCE", "INVALID_CHECK_DIGIT", "MISSING_EMAIL",
      "EMAIL_TOO_LONG", "INVALID_FORMAT", "LOCAL_PART_TOO_LONG", "PASSWORD_POLICY_VIOLATION",
      "INVALID_DDD", "INVALID_CELL_FORMAT", "TOO_SHORT", "TOO_LONG", "INVALID_CHARACTERS",
      "UNSUPPORTED_TYPE" }

\* C20: every outcome of a validator and every batch result that is not
\* valid carries an errorCode of the taxonomy; a batch item of an unknown
\* type gets UNSUPPORTED_TYPE.
ErrorCodeInTaxonomy ==
    /\ op \in Types /\ ~out.valid => out.errorCode \in Taxonomy
    /\ op = "POST /validate/batch" /\ resp.status = 200 =>
          \A i \in 1..Len(resp.body.results) :
              LET r == resp.body.results[i]
                  item == body.items[i]
              IN  /\ ~r.valid => "errorCode" \in DOMAIN r /\ r.errorCode \in Taxonomy
                  /\ /\ item.kind = "object"
                     /\ "type" \in DOMAIN item
                     /\ item.type \notin Types \cup {""}
                     /\ "value" \in DOMAIN item
                     /\ ~Falsy(item.value)
                     => r.errorCode = "UNSUPPORTED_TYPE"

\* the digits of s, in the order they have in s
DigitsOf(s) ==
    LET at == {i \in 1..Len(s) : s[i] \in Digits}
        nth(k) == CHOOSE i \in at : Cardinality({j \in at : j < i}) = k - 1
    IN  [k \in 1..Cardinality(at) |-> s[nth(k)]]

\* C21: onlyDigits returns the decimal digits of its input in their order
\* and nothing else, the empty string for an empty or null input, and
\* applied to its own result it returns that result.
OnlyDigitsIdempotent ==
    op = "onlyDigits" =>
        /\ \A i \in 1..Len(out.digits) : out.digits[i] \in Digits
        /\ out.digits = (IF Falsy(raw) THEN <<>> ELSE DigitsOf(raw.str))
        /\ onlyDigits(Str(out.digits)) = out.digits

\* a formatted CPF stripped to its 11 digits
OnlyDigitsIdempotentWitness ==
    /\ op = "onlyDigits"
    /\ raw = Str(<<"1", "1", "1", ".", "4", "4", "4", ".", "7", "7", "7", "-", "3", "5">>)
    /\ out.digits = D(<<1, 1, 1, 4, 4, 4, 7, 7, 7, 3, 5>>)

\* C22: isRepeated(digits, minLength) is true if and only if digits is one
\* digit repeated at least minLength times, for the lengths 11 and 14.
IsRepeatedIffOneDigit ==
    op = "isRepeated" =>
        (out.repeated <=>
            /\ Len(out.digits) >= out.minLength
            /\ \E d \in Digits : \A i \in 1..Len(out.digits) : out.digits[i] = d)

\* twelve times the digit 1 is repeated for 11 and is not for 14
IsRepeatedIffOneDigitWitness ==
    /\ op = "isRepeated"
    /\ out.digits = D(<<1, 1, 1, 1, 1, 1, 1, 1, 1, 1, 1, 1>>)
    /\ out.minLength = 14
    /\ ~out.repeated

\* the items of a request body: those of the array, none for another body
ItemsOf(b) == IF b.kind = "array" THEN b.items ELSE <<>>

\* C23: a batch of more than 100 items is answered with status 400 and
\* BATCH_LIMIT_EXCEEDED and with no result of any item; a batch of at most
\* 100 items is answered with status 200 and one result per item.
BatchLimitEnforced ==
    op = "POST /validate/batch" =>
        IF Len(ItemsOf(body)) > 100
        THEN /\ resp.status = 400
             /\ resp.body.errorCode = "BATCH_LIMIT_EXCEEDED"
             /\ "results" \notin DOMAIN resp.body
        ELSE /\ resp.status = 200
             /\ Len(resp.body.results) = Len(ItemsOf(body))

\* a list of 101 items, refused
BatchLimitEnforcedWitness ==
    /\ op = "POST /validate/batch"
    /\ body.kind = "array"
    /\ Len(body.items) = 101
    /\ resp.status = 400
    /\ resp.body.errorCode = "BATCH_LIMIT_EXCEEDED"

\* C24: when detectType returns a type tag, the validator of that type
\* accepts the value; GET /validate without a type parameter never answers
\* with a detected type and valid = false.
DetectionIsSound ==
    /\ op = "detect" /\ tag \in Types => validateAs(tag, raw, EmptyPolicy).valid
    /\ op = "GET /validate" /\ type = Undefined /\ resp.status = 200 => resp.body.valid

\* C25: a number given without the country code, of 10 or 11 digits, with a
\* listed area code (51, 53, 54 and 55 among them) in its first two digits
\* and, with 11 digits, the third digit 9, is accepted by validatePhoneBR.
BarePhoneAccepted ==
    op = "phone-br" /\ raw.kind = "string" /\ AllDigits(raw.str) /\ PhoneWellFormed(raw.str)
        => out.valid

\* C26: with the cache on, the response a client gets is the one the route
\* computes for its own request: for GET /validate it carries the client's
\* address as sourceIP and the time of the request as timestamp.
CacheServesOwnResponse ==
    \A c \in Clients :
        production /\ clients[c].pc = "done" =>
            clients[c].resp.body = handle(clients[c].req, clients[c].at, c).body

====
